---- MODULE Spec2Model ----
(***************************************************************************)
(* Node-level engine of the indexable skip list (src/src/skipnode.rs).     *)
(*                                                                         *)
(* The heap is a function from allocated addresses to SkipNode records.    *)
(* A raw pointer is an address, the null pointer is Null, a Box is the     *)
(* address it owns.  links and links_len are functions over 0..level, as   *)
(* the Vecs of the source are indexed.  Every method of the source is an   *)
(* operator from a heap (and its arguments) to a record holding the new    *)
(* heap and the value returned.                                            *)
(***************************************************************************)
EXTENDS Integers, Sequences, FiniteSets, TLC

\* Bounds of the model.
MaxNodes == 3        \* elements held by a structure, at most
MaxLevels == 3       \* total_levels of an empty sentinel, at most
MaxSize == 128       \* levels_required is applied to every size up to this one
MaxShift == 20       \* and to the sizes next to the powers of two up to 2^MaxShift

\* usize::BITS on the 64-bit targets.
num_bits == 64

Null == 0            \* ptr::null_mut()
None == -1           \* Option::None of a payload
HeadPtr == 1         \* address of the sentinel
Addr == 1..(MaxNodes + 2)
MaxDistance == MaxNodes + 1

Min(a, b) == IF a <= b THEN a ELSE b

RECURSIVE Pow2(_)
Pow2(k) == IF k = 0 THEN 1 ELSE 2 * Pow2(k - 1)

VARIABLES
    heap,       \* allocated nodes: address -> SkipNode
    ret,        \* the last call and what it returned
    before,     \* what the last insert or remove started from
    call,       \* the last read-only call (distance, advance_atmost) and its result
    S,          \* reference sequence of payloads kept side by side
    iter,       \* the IntoIter, or NoIter
    front_out,  \* payloads returned by next(), in call order
    back_out,   \* payloads returned by next_back(), in call order
    stack       \* the destructor calls in progress, innermost last

vars == <<heap, ret, before, call, S, iter, front_out, back_out, stack>>

--------------------------------------------------------------------------
\* levels_required, level_for_index

RECURSIVE leading_zeros_from(_, _)
leading_zeros_from(n, bits) ==
    IF n = 0 THEN bits ELSE leading_zeros_from(n \div 2, bits - 1)

leading_zeros(n) == leading_zeros_from(n, num_bits)

\* levels_required, but counting the bits of n - 1.
levels_required_of_pred(n) ==
    IF n = 0 THEN 1 ELSE num_bits - leading_zeros(n - 1)

levels_required(n) ==
    IF n = 0 THEN 1 ELSE num_bits - leading_zeros(n)

RECURSIVE level_for_index(_)
level_for_index(n) ==
    IF n % 2 = 1 THEN 1 + level_for_index(n \div 2) ELSE 0

--------------------------------------------------------------------------
\* SkipNode constructors

SkipNode_head(total_levels) ==
    [ value     |-> None,
      level     |-> total_levels - 1,
      prev      |-> Null,
      links     |-> [i \in 0..(total_levels - 1) |-> Null],
      links_len |-> [i \in 0..(total_levels - 1) |-> 0] ]

SkipNode_new(value, level) ==
    [ value     |-> value,
      level     |-> level,
      prev      |-> Null,
      links     |-> [i \in 0..level |-> Null],
      links_len |-> [i \in 0..level |-> 0] ]

is_head(h, self) == h[self].prev = Null

next_ref(h, self) == h[self].links[0]

\* Box::new: the allocator hands out the lowest free address.
NewAddr(h) == CHOOSE a \in Addr \ DOMAIN h : \A b \in Addr \ DOMAIN h : a <= b

Alloc(h, a, node) == [x \in DOMAIN h \cup {a} |-> IF x = a THEN node ELSE h[x]]

Dealloc(h, a) == [x \in DOMAIN h \ {a} |-> h[x]]

--------------------------------------------------------------------------
\* Level-0 splice primitives.  An operator that goes on with the value of a call
\* takes that value as a parameter (take_next_some, replace_next_old, ...).

\* take_next, but the level-0 span of self is left as it was.
take_next_keep_len(h, self) ==
    IF h[self].links[0] = Null
    THEN [heap |-> h, node |-> Null]
    ELSE [heap |-> [h EXCEPT ![h[self].links[0]].prev = Null,
                             ![self].links[0] = Null],
          node |-> h[self].links[0]]

take_next(h, self) ==
    IF h[self].links[0] = Null
    THEN [heap |-> h, node |-> Null]
    ELSE [heap |-> [h EXCEPT ![h[self].links[0]].prev = Null,
                             ![self].links[0] = Null,
                             ![self].links_len[0] = 0],
          node |-> h[self].links[0]]

\* replace_next_old, but the back-reference of the new successor is not set.
replace_next_old_no_prev(t, self, new_next) ==
    [heap |-> [(IF t.node # Null THEN [t.heap EXCEPT ![t.node].prev = Null] ELSE t.heap)
                  EXCEPT ![self].links[0] = new_next,
                         ![self].links_len[0] = 1],
     node |-> t.node]

\* replace_next once take_next has returned old_next = t.node.
replace_next_old(t, self, new_next) ==
    [heap |-> [(IF t.node # Null THEN [t.heap EXCEPT ![t.node].prev = Null] ELSE t.heap)
                  EXCEPT ![new_next].prev = self,
                         ![self].links[0] = new_next,
                         ![self].links_len[0] = 1],
     node |-> t.node]

replace_next(h, self, new_next) == replace_next_old(take_next(h, self), self, new_next)

--------------------------------------------------------------------------
\* Traversal primitives.  A closure is a record: its kind and what it captured.

AtmostPred(level, max_distance) ==
    [kind |-> "atmost", level |-> level, max_distance |-> max_distance, target |-> Null]

NotTargetPred(target) ==
    [kind |-> "not_target", level |-> 0, max_distance |-> 0, target |-> target]

AlwaysPred == [kind |-> "always", level |-> 0, max_distance |-> 0, target |-> Null]

\* CallPred, but the budget of advance_atmost must exceed the span to be crossed.
CallPred_strict(h, pred, current_node) ==
    CASE pred.kind = "atmost" ->
            IF h[current_node].links_len[pred.level] < pred.max_distance
            THEN [result |-> TRUE,
                  pred |-> [pred EXCEPT !.max_distance =
                                @ - h[current_node].links_len[pred.level]]]
            ELSE [result |-> FALSE, pred |-> pred]
      [] pred.kind = "not_target" ->
            [result |-> current_node # pred.target, pred |-> pred]
      [] OTHER ->
            [result |-> TRUE, pred |-> pred]

\* One call of the closure on (current_node, _): its answer and its captured state after.
CallPred(h, pred, current_node) ==
    CASE pred.kind = "atmost" ->
            IF h[current_node].links_len[pred.level] <= pred.max_distance
            THEN [result |-> TRUE,
                  pred |-> [pred EXCEPT !.max_distance =
                                @ - h[current_node].links_len[pred.level]]]
            ELSE [result |-> FALSE, pred |-> pred]
      [] pred.kind = "not_target" ->
            [result |-> current_node # pred.target, pred |-> pred]
      [] OTHER ->
            [result |-> TRUE, pred |-> pred]

\* advance_if where the link is Some(next) and the predicate has answered c.
advance_if_some(h, self, level, c) ==
    IF c.result
    THEN [ok |-> TRUE, node |-> h[self].links[level],
          steps |-> h[self].links_len[level], pred |-> c.pred]
    ELSE [ok |-> FALSE, node |-> self, steps |-> 0, pred |-> c.pred]

\* ok = FALSE is Err(self).  The predicate is called only on a present link.
advance_if(h, self, level, pred) ==
    IF h[self].links[level] = Null
    THEN [ok |-> FALSE, node |-> self, steps |-> 0, pred |-> pred]
    ELSE advance_if_some(h, self, level, CallPred(h, pred, self))

advance_if_mut(h, self, level, pred) == advance_if(h, self, level, pred)

\* The loop of advance_while: current and travelled are its two locals.
RECURSIVE advance_while_loop(_, _, _, _, _)
advance_while_match(h, level, travelled, r) ==
    IF r.ok
    THEN advance_while_loop(h, r.node, level, r.pred, travelled + r.steps)
    ELSE [node |-> r.node, travelled |-> travelled]

advance_while_loop(h, current, level, pred, travelled) ==
    advance_while_match(h, level, travelled, advance_if(h, current, level, pred))

advance_while(h, self, level, pred) == advance_while_loop(h, self, level, pred, 0)

advance_while_mut(h, self, level, pred) == advance_while_loop(h, self, level, pred, 0)

\* advance_atmost with one step more than the budget allows.
advance_atmost_plus_one(h, self, level, max_distance) ==
    advance_while(h, self, level, AtmostPred(level, max_distance + 1))

advance_atmost(h, self, level, max_distance) ==
    advance_while(h, self, level, AtmostPred(level, max_distance))

advance_atmost_mut(h, self, level, max_distance) ==
    advance_while_mut(h, self, level, AtmostPred(level, max_distance))

\* distance_some, but the node reached is not compared with the target.
distance_some_unchecked(target, r) == [ok |-> TRUE, value |-> r.travelled]

\* distance(level, Some(target)) once advance_while has returned r.
distance_some(target, r) ==
    IF r.node # target
    THEN [ok |-> FALSE, value |-> 0]
    ELSE [ok |-> TRUE, value |-> r.travelled]

\* distance_none, but the span of the last node is not added.
distance_none_short(h, level, r) == [ok |-> TRUE, value |-> r.travelled]

\* distance(level, None) once advance_while has returned r.
distance_none(h, level, r) ==
    [ok |-> TRUE, value |-> h[r.node].links_len[level] + r.travelled]

\* Result<usize, ()>: ok = FALSE is Err(()).  target = Null is None.
distance(h, self, level, target) ==
    IF target # Null
    THEN distance_some(target, advance_while(h, self, level, NotTargetPred(target)))
    ELSE distance_none(h, level, advance_while(h, self, level, AlwaysPred))

--------------------------------------------------------------------------
\* Indexed insertion

\* The closure built in insert, once advance_atmost_mut has returned r;
\* distance_left is its captured state.
insert_locater_ret(distance_left, r) ==
    [node |-> r.node, distance |-> r.travelled, distance_left |-> distance_left - r.travelled]

insert_locater(h, node, level, distance_left) ==
    insert_locater_ret(distance_left, advance_atmost_mut(h, node, level, distance_left))

\* usize subtraction: a result below zero is the overflow panic of a checked build.
Underflows(a, b) == a < b

\* insert_relink, but the new node takes the whole old span of its predecessor.
insert_relink_no_sub(h, prev_node, level, inserted_node, insert_distance) ==
    IF level <= h[inserted_node].level
    THEN [heap |-> [h EXCEPT
              ![inserted_node].links[level] = h[prev_node].links[level],
              ![inserted_node].links_len[level] = h[prev_node].links_len[level] + 1,
              ![prev_node].links[level] = inserted_node,
              ![prev_node].links_len[level] = insert_distance],
          panic |-> FALSE]
    ELSE [heap |-> [h EXCEPT ![prev_node].links_len[level] = @ + 1], panic |-> FALSE]

\* insert_relink, but a span that crosses a node too low for the level does not grow.
insert_relink_no_grow(h, prev_node, level, inserted_node, insert_distance) ==
    IF level <= h[inserted_node].level
    THEN [heap |-> [h EXCEPT
              ![inserted_node].links[level] = h[prev_node].links[level],
              ![inserted_node].links_len[level] =
                  h[prev_node].links_len[level] + 1 - insert_distance,
              ![prev_node].links[level] = inserted_node,
              ![prev_node].links_len[level] = insert_distance],
          panic |-> FALSE]
    ELSE [heap |-> h, panic |-> FALSE]

\* insert_relink, but the new node is not linked at its own top level.
insert_relink_below_top(h, prev_node, level, inserted_node, insert_distance) ==
    IF level < h[inserted_node].level
    THEN [heap |-> [h EXCEPT
              ![inserted_node].links[level] = h[prev_node].links[level],
              ![inserted_node].links_len[level] =
                  h[prev_node].links_len[level] + 1 - insert_distance,
              ![prev_node].links[level] = inserted_node,
              ![prev_node].links_len[level] = insert_distance],
          panic |-> FALSE]
    ELSE [heap |-> [h EXCEPT ![prev_node].links_len[level] = @ + 1], panic |-> FALSE]

\* The unwinding step of _insert at a level >= 1, once the node is spliced in below.
insert_relink(h, prev_node, level, inserted_node, insert_distance) ==
    IF level <= h[inserted_node].level
    THEN IF Underflows(h[prev_node].links_len[level] + 1, insert_distance)
         THEN [heap |-> [h EXCEPT ![inserted_node].links[level] = h[prev_node].links[level]],
               panic |-> TRUE]
         ELSE [heap |-> [h EXCEPT
                   ![inserted_node].links[level] = h[prev_node].links[level],
                   ![inserted_node].links_len[level] =
                       h[prev_node].links_len[level] + 1 - insert_distance,
                   ![prev_node].links[level] = inserted_node,
                   ![prev_node].links_len[level] = insert_distance],
               panic |-> FALSE]
    ELSE [heap |-> [h EXCEPT ![prev_node].links_len[level] = @ + 1], panic |-> FALSE]

\* The level-0 step of _insert once prev_node.take_next() has returned t.
insert_splice_tail(prev_node, new_node, t) ==
    IF t.node # Null
    THEN replace_next(replace_next(t.heap, new_node, t.node).heap, prev_node, new_node).heap
    ELSE replace_next(t.heap, prev_node, new_node).heap

\* insert_splice, but the old successor is not attached behind the new node.
insert_splice_drop_tail(h, prev_node, new_node) ==
    replace_next(take_next(h, prev_node).heap, prev_node, new_node).heap

\* The level-0 step of _insert.
insert_splice(h, prev_node, new_node) ==
    insert_splice_tail(prev_node, new_node, take_next(h, prev_node))

\* _insert_base, but the step onto the new node is not counted.
_insert_base_no_step(prev_node, prev_distance, h2) ==
    [heap |-> h2, node |-> next_ref(h2, prev_node),
     distance |-> prev_distance, panic |-> FALSE]

\* What _insert returns at level 0: h2 is the heap after the splice.
_insert_base(prev_node, prev_distance, h2) ==
    [heap |-> h2, node |-> next_ref(h2, prev_node),
     distance |-> prev_distance + 1, panic |-> FALSE]

\* What _insert returns at a level >= 1: f is what the unwinding step made.
_insert_ret(inserted_node, dist, f) ==
    [heap |-> f.heap, node |-> inserted_node, distance |-> dist, panic |-> f.panic]

\* _insert at a level >= 1 once the call one level down has returned r.
_insert_up(prev_node, prev_distance, level, r) ==
    IF r.panic THEN r
    ELSE _insert_ret(r.node, r.distance + prev_distance,
                     insert_relink(r.heap, prev_node, level, r.node, r.distance))

\* _insert once the locater has returned loc = (prev_node, prev_distance).
RECURSIVE _insert(_, _, _, _, _)
_insert_at(h, level, new_node, loc) ==
    IF level = 0
    THEN _insert_base(loc.node, loc.distance, insert_splice(h, loc.node, new_node))
    ELSE _insert_up(loc.node, loc.distance, level,
                    _insert(h, loc.node, level - 1, new_node, loc.distance_left))

_insert(h, self, level, new_node, distance_left) ==
    _insert_at(h, level, new_node, insert_locater(h, self, level, distance_left))

\* insert itself returns (): node and distance of the record are what the call
\* of _insert it makes at self.level returned.
insert(h, self, new_node, dist) == _insert(h, self, h[self].level, new_node, dist)

--------------------------------------------------------------------------
\* Indexed removal

\* remove_locater_ret, but the closure does not use up its captured distance.
remove_locater_ret_keep_left(h, distance_left, r) ==
    [found |-> h[r.node].links[0] # Null, node |-> r.node, distance |-> r.travelled,
     distance_left |-> distance_left]

\* The closure built in remove, once advance_atmost_mut has returned r;
\* found = FALSE is its None.
remove_locater_ret(h, distance_left, r) ==
    [found |-> h[r.node].links[0] # Null, node |-> r.node, distance |-> r.travelled,
     distance_left |-> distance_left - r.travelled]

remove_locater(h, node, level, distance_left) ==
    remove_locater_ret(h, distance_left, advance_atmost_mut(h, node, level, distance_left))

RemoveNone(h) == [found |-> FALSE, heap |-> h, node |-> Null, distance |-> 0, panic |-> FALSE]

\* remove_relink, but a span that crossed a node too low for the level does not shrink.
remove_relink_no_shrink(h, prev_node, level, removed_node, dist) ==
    IF level <= h[removed_node].level
    THEN [heap |-> [h EXCEPT
              ![prev_node].links[level] = h[removed_node].links[level],
              ![prev_node].links_len[level] = dist + h[removed_node].links_len[level] - 1],
          panic |-> FALSE]
    ELSE [heap |-> h, panic |-> FALSE]

\* remove_relink, but the predecessor keeps its link to the removed node.
remove_relink_keep_link(h, prev_node, level, removed_node, dist) ==
    IF level <= h[removed_node].level
    THEN [heap |-> [h EXCEPT
              ![prev_node].links_len[level] = dist + h[removed_node].links_len[level] - 1],
          panic |-> FALSE]
    ELSE [heap |-> [h EXCEPT ![prev_node].links_len[level] = @ - 1], panic |-> FALSE]

\* The unwinding step of _remove at a level >= 1, once the node is spliced out below.
\* panic: the assert_eq! fails, or a subtraction goes below zero.
remove_relink(h, prev_node, level, removed_node, dist) ==
    IF level <= h[removed_node].level
    THEN IF h[prev_node].links_len[level] # dist
            \/ Underflows(dist + h[removed_node].links_len[level], 1)
         THEN [heap |-> [h EXCEPT ![prev_node].links[level] = h[removed_node].links[level]],
               panic |-> TRUE]
         ELSE [heap |-> [h EXCEPT
                   ![prev_node].links[level] = h[removed_node].links[level],
                   ![prev_node].links_len[level] =
                       dist + h[removed_node].links_len[level] - 1],
               panic |-> FALSE]
    ELSE IF Underflows(h[prev_node].links_len[level], 1)
         THEN [heap |-> h, panic |-> TRUE]
         ELSE [heap |-> [h EXCEPT ![prev_node].links_len[level] = @ - 1], panic |-> FALSE]

\* if let Some(next_node) = prev_node.next_mut() { next_node.prev = prev_node_p }
remove_fix_prev(prev_node, h2) ==
    IF next_ref(h2, prev_node) # Null
    THEN [h2 EXCEPT ![next_ref(h2, prev_node)].prev = prev_node]
    ELSE h2

\* The level-0 step of _remove once removed_node.take_next() has returned t2.
remove_splice_next(prev_node, removed_node, t2) ==
    [heap |-> remove_fix_prev(prev_node,
                  IF t2.node # Null
                  THEN replace_next(t2.heap, prev_node, t2.node).heap
                  ELSE t2.heap),
     node |-> removed_node]

\* The level-0 step of _remove once prev_node.take_next() has returned t1;
\* node = Null is the None of take_next()?.
remove_splice_taken(h, prev_node, t1) ==
    IF t1.node = Null
    THEN [heap |-> h, node |-> Null]
    ELSE remove_splice_next(prev_node, t1.node, take_next(t1.heap, t1.node))

\* The level-0 step of _remove.
remove_splice(h, prev_node) == remove_splice_taken(h, prev_node, take_next(h, prev_node))

\* What _remove returns at level 0: sp is what the splice made.
_remove_base(h, prev_distance, sp) ==
    IF sp.node = Null THEN RemoveNone(h)
    ELSE [found |-> TRUE, heap |-> sp.heap, node |-> sp.node,
          distance |-> prev_distance + 1, panic |-> FALSE]

\* What _remove returns at a level >= 1: f is what the unwinding step made.
_remove_ret(removed_node, dist, f) ==
    [found |-> TRUE, heap |-> f.heap, node |-> removed_node,
     distance |-> dist, panic |-> f.panic]

\* _remove_up, but the span is shortened before the None from below is looked at.
_remove_up_eager(prev_node, prev_distance, level, r) ==
    IF r.panic THEN r
    ELSE IF ~r.found
    THEN [r EXCEPT !.heap = [r.heap EXCEPT ![prev_node].links_len[level] = @ - 1]]
    ELSE _remove_ret(r.node, prev_distance + r.distance,
                     remove_relink(r.heap, prev_node, level, r.node, r.distance))

\* _remove at a level >= 1 once the call one level down has returned r.
_remove_up(prev_node, prev_distance, level, r) ==
    IF ~r.found \/ r.panic THEN r
    ELSE _remove_ret(r.node, prev_distance + r.distance,
                     remove_relink(r.heap, prev_node, level, r.node, r.distance))

\* _remove once the locater has returned loc; loc.found = FALSE is the None of locater(..)?.
RECURSIVE _remove(_, _, _, _)
_remove_at(h, level, loc) ==
    IF ~loc.found THEN RemoveNone(h)
    ELSE IF level = 0
    THEN _remove_base(h, loc.distance, remove_splice(h, loc.node))
    ELSE _remove_up(loc.node, loc.distance, level,
                    _remove(h, loc.node, level - 1, loc.distance_left))

_remove(h, self, level, distance_left) ==
    _remove_at(h, level, remove_locater(h, self, level, distance_left))

remove(h, self, dist) == _remove(h, self, h[self].level, dist)

--------------------------------------------------------------------------
\* Teardown

\* drop once take_next has returned t: the loop goes on from node_inner = t.node,
\* which is freed when the loop body ends.
RECURSIVE drop(_, _)
drop_taken(t) ==
    IF t.node = Null THEN t.heap
    ELSE Dealloc(drop(t.heap, t.node), t.node)

drop(h, self) == drop_taken(take_next(h, self))

\* The same destructor step by step.  A frame is one call of Drop::drop: self,
\* where the call stands, and its locals node and node_inner (Null is None).
Frame(self, pc, node, node_inner) ==
    [self |-> self, pc |-> pc, node |-> node, node_inner |-> node_inner]

Top(st) == st[Len(st)]

Pop(st) == SubSeq(st, 1, Len(st) - 1)

SetTop(st, f) == [st EXCEPT ![Len(st)] = f]

\* let mut node = self.take_next(), t being what take_next returned.
drop_first(st, t) ==
    [heap |-> t.heap, stack |-> SetTop(st, Frame(Top(st).self, "while", t.node, Null))]

\* The call returns.  The memory of self is released by whoever dropped it: the
\* loop body of the calling frame, which then tests its condition again.
drop_return(h, st) ==
    [heap |-> Dealloc(h, Top(st).self),
     stack |-> IF Len(st) = 1 THEN << >>
               ELSE SetTop(Pop(st), [Top(Pop(st)) EXCEPT !.pc = "while", !.node_inner = Null])]

\* drop_body, but the successor of node_inner is left linked to it.
drop_body_keep_next(st, f, t) ==
    [heap |-> [t.heap EXCEPT ![f.node_inner].links[0] = t.node],
     stack |-> Append(SetTop(st, [f EXCEPT !.pc = "drop_inner", !.node = t.node]),
                      Frame(f.node_inner, "first", Null, Null))]

\* node = node_inner.take_next(), t being what take_next returned; the body ends
\* there and node_inner goes out of scope, which calls its destructor.
drop_body(st, f, t) ==
    [heap |-> t.heap,
     stack |-> Append(SetTop(st, [f EXCEPT !.pc = "drop_inner", !.node = t.node]),
                      Frame(f.node_inner, "first", Null, Null))]

\* while let Some(mut node_inner) = node
drop_while(h, st, f) ==
    IF f.node = Null THEN drop_return(h, st)
    ELSE [heap |-> h,
          stack |-> SetTop(st, [f EXCEPT !.pc = "body", !.node_inner = f.node, !.node = Null])]

\* One step of the innermost call of Drop::drop.
drop_step(h, st) ==
    CASE Top(st).pc = "first" -> drop_first(st, take_next(h, Top(st).self))
      [] Top(st).pc = "while" -> drop_while(h, st, Top(st))
      [] OTHER -> drop_body(st, Top(st), take_next(h, Top(st).node_inner))

--------------------------------------------------------------------------
\* Two-ended consuming iteration

\* into_inner consumes the node: the payload is taken, then the node is dropped.
into_inner(h, self) ==
    [heap |-> Dealloc(drop(h, self), self), value |-> h[self].value]

\* size_hint: (lower, Some(upper)).
size_hint(it) == <<it.size, it.size>>

\* What next or next_back returns: the heap, the iterator and the Option<T>.
IterRet(taken, it) ==
    [heap |-> taken.heap, iter |-> it, value |-> taken.value, panic |-> FALSE]

\* A call that panics: h is the heap once the unwinding has dropped the popped node.
IterPanic(h, it) == [heap |-> h, iter |-> it, value |-> None, panic |-> TRUE]

\* next that leaves the back pointer alone when it pops the only node.
next_keep_last(h, it) ==
    IF it.first = Null
    THEN [heap |-> h, iter |-> it, value |-> None, panic |-> FALSE]
    ELSE IF Underflows(it.size, 1)
    THEN IterPanic(into_inner(h, it.first).heap, [it EXCEPT !.first = Null])
    ELSE IF h[it.first].links[0] = Null
    THEN IterRet(into_inner(h, it.first),
                 [it EXCEPT !.first = Null, !.size = @ - 1])
    ELSE IterRet(into_inner([h EXCEPT ![it.first].links[0] = Null], it.first),
                 [it EXCEPT !.first = h[it.first].links[0], !.size = @ - 1])

\* IntoIter::next
next(h, it) ==
    IF it.first = Null
    THEN [heap |-> h, iter |-> it, value |-> None, panic |-> FALSE]
    ELSE IF Underflows(it.size, 1)
    THEN IterPanic(into_inner(h, it.first).heap, [it EXCEPT !.first = Null])
    ELSE IF h[it.first].links[0] = Null
    THEN IterRet(into_inner(h, it.first),
                 [it EXCEPT !.first = Null, !.last = Null, !.size = @ - 1])
    ELSE IterRet(into_inner([h EXCEPT ![it.first].links[0] = Null], it.first),
                 [it EXCEPT !.first = h[it.first].links[0], !.size = @ - 1])

\* next_back where new_last = (*self.last).prev is null or points to a live node.
next_back_pop(h, it, new_last) ==
    IF new_last = Null
    THEN IF Underflows(it.size, 1)
         THEN IterPanic(into_inner(h, it.first).heap,
                        [it EXCEPT !.first = Null, !.last = new_last])
         ELSE IterRet(into_inner(h, it.first),
                      [it EXCEPT !.first = Null, !.last = new_last, !.size = @ - 1])
    ELSE IF Underflows(it.size, 1)
         THEN IterPanic(into_inner([h EXCEPT ![new_last].links[0] = Null],
                                   h[new_last].links[0]).heap,
                        [it EXCEPT !.last = new_last])
         ELSE IterRet(into_inner([h EXCEPT ![new_last].links[0] = Null],
                                 h[new_last].links[0]),
                      [it EXCEPT !.last = new_last, !.size = @ - 1])

\* DoubleEndedIterator::next_back, as far as it reads live nodes only.
next_back(h, it) ==
    IF it.first = Null
    THEN [heap |-> h, iter |-> it, value |-> None, panic |-> FALSE]
    ELSE IF it.last = Null THEN IterPanic(h, it)       \* assert!(!self.last.is_null())
    ELSE next_back_pop(h, it, h[it.last].prev)

\* next_back reads (*new_last).links[0] where new_last points to a freed node.
next_back_dangling(h, it) ==
    /\ it.first # Null
    /\ it.last \in DOMAIN h
    /\ h[it.last].prev # Null
    /\ h[it.last].prev \notin DOMAIN h

--------------------------------------------------------------------------
\* The list built by the tests

TestNodeAddr(i) == i + 2

\* The engine never reads a payload.  The caller gives the box at address a the
\* payload that new_list_for_test gives nodes[a - 2], so every payload names its box.
PayloadOf(a) == a - 2

new_list_for_test(n) ==
    LET max_level == levels_required(n)
        at(level) == SelectSeq([k \in 1..n |-> k - 1],
                               LAMBDA i : level <= level_for_index(i))
        pos(level, i) == CHOOSE k \in 1..Len(at(level)) : at(level)[k] = i
        \* k-th node of the level's chain, the head being the 0-th
        link(level, k) == IF k < Len(at(level))
                          THEN TestNodeAddr(at(level)[k + 1]) ELSE Null
        len(level, k) == IF k < Len(at(level))
                         THEN Pow2(level)
                         ELSE n - Len(at(level)) * Pow2(level)
        node(i) == [ value     |-> i,
                     level     |-> level_for_index(i),
                     prev      |-> IF i = 0 THEN HeadPtr ELSE TestNodeAddr(i - 1),
                     links     |-> [L \in 0..level_for_index(i) |-> link(L, pos(L, i))],
                     links_len |-> [L \in 0..level_for_index(i) |-> len(L, pos(L, i))] ]
        head == [ SkipNode_head(max_level) EXCEPT
                     !.links     = [L \in 0..(max_level - 1) |-> link(L, 0)],
                     !.links_len = [L \in 0..(max_level - 1) |-> len(L, 0)] ]
    IN [a \in {HeadPtr} \cup {TestNodeAddr(i) : i \in 0..(n - 1)} |->
            IF a = HeadPtr THEN head ELSE node(a - 2)]

--------------------------------------------------------------------------
\* The program: a caller holding the sentinel

\* IntoIter { first, last, size }.  live: an iterator exists; ub: a call read
\* through a pointer to a freed node, after which nothing is defined.
IntoIter(first, last, size) ==
    [first |-> first, last |-> last, size |-> size, live |-> TRUE, ub |-> FALSE]

NoIter == [first |-> Null, last |-> Null, size |-> 0, live |-> FALSE, ub |-> FALSE]

\* A call that writes: d, level are its arguments, (node, distance) what insert
\* or remove returned (found = FALSE is None), value the Option<T> an iterator
\* returned, panic whether the call panicked.
Ret(op, d, level, node, dist, found, panic) ==
    [op |-> op, d |-> d, level |-> level, node |-> node, distance |-> dist,
     found |-> found, panic |-> panic, value |-> None]

RetValue(op, value, panic) ==
    [op |-> op, d |-> 0, level |-> 0, node |-> Null, distance |-> 0,
     found |-> FALSE, panic |-> panic, value |-> value]

NoHeap == << >>

\* heap: the heap when the call started; box: the box passed to insert;
\* prior: for a remove(d) that directly follows an insert(_, d), the heap and the
\* box that insert started from.
Before(h, box, prior_heap, prior_box) ==
    [heap |-> h, box |-> box, prior_heap |-> prior_heap, prior_box |-> prior_box]

NoBefore == Before(NoHeap, Null, NoHeap, Null)

\* A read-only call on node self; ok and value are the Result it returned.
Query(op, self, level, target, ok, value) ==
    [op |-> op, self |-> self, level |-> level, target |-> target,
     ok |-> ok, value |-> value]

NoQuery == Query("none", Null, 0, Null, FALSE, 0)

\* advance_atmost(level, max_distance) on self returned (node, value).
Advanced(self, level, max_distance, node, value) ==
    [op |-> "advance_atmost", self |-> self, level |-> level, target |-> Null,
     ok |-> TRUE, value |-> value, max_distance |-> max_distance, node |-> node]

\* levels_required(n) returned value.
Levels(n, value) ==
    [op |-> "levels_required", self |-> Null, level |-> 0, target |-> Null,
     ok |-> TRUE, value |-> value, n |-> n]

InsertAt(s, i, v) == SubSeq(s, 1, i) \o <<v>> \o SubSeq(s, i + 1, Len(s))

RemoveAt(s, i) == SubSeq(s, 1, i) \o SubSeq(s, i + 2, Len(s))

\* Elements in the structure, by allocation: everything but the sentinel and a
\* box the caller holds.
Held == IF ret.op = "remove" /\ ret.found THEN {ret.node} ELSE {}

Elements == DOMAIN heap \ ({HeadPtr} \cup Held)

Init ==
    /\ \/ \E total_levels \in 1..MaxLevels :
              /\ heap = [a \in {HeadPtr} |-> SkipNode_head(total_levels)]
              /\ S = << >>
       \/ \E n \in 0..MaxNodes :
              /\ heap = new_list_for_test(n)
              /\ S = [k \in 1..n |-> k - 1]
    /\ ret = Ret("init", 0, 0, Null, 0, FALSE, FALSE)
    /\ before = NoBefore
    /\ call = NoQuery
    /\ iter = NoIter
    /\ front_out = << >>
    /\ back_out = << >>
    /\ stack = << >>

\* No call has panicked, and the structure has not been given to an iterator
\* or to its destructor.
Running == ~ret.panic /\ ~iter.live /\ ret.op # "drop_head"

\* Distances run up to one past the end: the distance left over is never read.
\* The caller's side of insert once it has returned r for the new box a.
InsertDone(level, d, a, r) ==
    /\ heap' = r.heap
    /\ ret' = Ret("insert", d, level, r.node, r.distance, TRUE, r.panic)
    /\ before' = Before(heap, a, NoHeap, Null)
    /\ S' = InsertAt(S, Min(d, Len(S)), PayloadOf(a))

\* head.insert(Box::new(SkipNode::new(value, level)), d)
InsertBox(level, d, a) ==
    InsertDone(level, d, a,
               insert(Alloc(heap, a, SkipNode_new(PayloadOf(a), level)), HeadPtr, a, d))

Insert(level, d) ==
    /\ Running
    /\ Held = {}
    /\ Cardinality(Elements) < MaxNodes
    /\ level <= heap[HeadPtr].level
    /\ d <= Cardinality(Elements) + 1
    /\ InsertBox(level, d, NewAddr(heap))
    /\ call' = NoQuery
    /\ UNCHANGED <<iter, front_out, back_out, stack>>

\* The caller's side of remove(d) once it has returned r.
RemoveDone(d, r) ==
    /\ heap' = r.heap
    /\ ret' = Ret("remove", d, 0, r.node, r.distance, r.found, r.panic)
    /\ before' = IF ret.op = "insert" /\ ret.d = d
                 THEN Before(heap, Null, before.heap, before.box)
                 ELSE Before(heap, Null, NoHeap, Null)
    /\ S' = IF r.found THEN RemoveAt(S, d) ELSE S

\* head.remove(d)
Remove(d) ==
    /\ Running
    /\ Held = {}
    /\ d <= Cardinality(Elements) + 1
    /\ RemoveDone(d, remove(heap, HeadPtr, d))
    /\ call' = NoQuery
    /\ UNCHANGED <<iter, front_out, back_out, stack>>

\* The caller lets go of the box that remove returned.
DropRemoved ==
    /\ Running
    /\ Held # {}
    /\ heap' = Dealloc(drop(heap, ret.node), ret.node)
    /\ ret' = Ret("drop", 0, 0, Null, 0, FALSE, FALSE)
    /\ before' = NoBefore
    /\ call' = NoQuery
    /\ UNCHANGED <<S, iter, front_out, back_out, stack>>

Next ==
    \/ \E level \in 0..MaxLevels, d \in 0..MaxDistance : Insert(level, d)
    \/ \E d \in 0..MaxDistance : Remove(d)
    \/ DropRemoved

Spec == Init /\ [][Next]_vars

--------------------------------------------------------------------------
\* The program with its read-only calls

\* The caller's side of distance once it has returned r.
DistanceDone(self, level, target, r) ==
    call' = Query("distance", self, level, target, r.ok, r.value)

\* self.distance(level, target) on a node of the structure; &self: nothing is written.
Distance(self, level, target) ==
    /\ Running
    /\ Held = {}
    /\ self \in DOMAIN heap
    /\ level <= heap[self].level
    /\ target \in DOMAIN heap \cup {Null}
    /\ DistanceDone(self, level, target, distance(heap, self, level, target))
    /\ ret' = Ret("distance", 0, 0, Null, 0, FALSE, FALSE)
    /\ before' = Before(heap, Null, NoHeap, Null)
    /\ UNCHANGED <<heap, S, iter, front_out, back_out, stack>>

NextQuery ==
    \/ \E level \in 0..MaxLevels, d \in 0..MaxDistance : Insert(level, d)
    \/ \E d \in 0..MaxDistance : Remove(d)
    \/ DropRemoved
    \/ \E self \in Addr, level \in 0..MaxLevels, target \in Addr \cup {Null} :
           Distance(self, level, target)

SpecQuery == Init /\ [][NextQuery]_vars

\* The caller's side of advance_atmost once it has returned r.
AdvanceAtmostDone(self, level, max_distance, r) ==
    call' = Advanced(self, level, max_distance, r.node, r.travelled)

\* self.advance_atmost(level, max_distance) on a node of the structure.
AdvanceAtmost(self, level, max_distance) ==
    /\ Running
    /\ Held = {}
    /\ self \in DOMAIN heap
    /\ level <= heap[self].level
    /\ AdvanceAtmostDone(self, level, max_distance,
                         advance_atmost(heap, self, level, max_distance))
    /\ ret' = Ret("advance_atmost", 0, 0, Null, 0, FALSE, FALSE)
    /\ before' = Before(heap, Null, NoHeap, Null)
    /\ UNCHANGED <<heap, S, iter, front_out, back_out, stack>>

NextAdvance ==
    \/ \E level \in 0..MaxLevels, d \in 0..MaxDistance : Insert(level, d)
    \/ \E d \in 0..MaxDistance : Remove(d)
    \/ DropRemoved
    \/ \E self \in Addr, level \in 0..MaxLevels, max_distance \in 0..MaxDistance :
           AdvanceAtmost(self, level, max_distance)

SpecAdvance == Init /\ [][NextAdvance]_vars

--------------------------------------------------------------------------
\* The program with the teardown of the whole structure

\* The owner drops the sentinel: Drop::drop(&mut head) is called.
DropHead ==
    /\ Running
    /\ Held = {}
    /\ stack' = <<Frame(HeadPtr, "first", Null, Null)>>
    /\ ret' = Ret("drop_head", 0, 0, Null, 0, FALSE, FALSE)
    /\ before' = Before(heap, Null, NoHeap, Null)
    /\ call' = NoQuery
    /\ UNCHANGED <<heap, S, iter, front_out, back_out>>

\* The caller's side of one step r of the destructor.
DropStepDone(r) ==
    /\ heap' = r.heap
    /\ stack' = r.stack

DropStep ==
    /\ stack # << >>
    /\ DropStepDone(drop_step(heap, stack))
    /\ UNCHANGED <<ret, before, call, S, iter, front_out, back_out>>

NextDrop ==
    \/ \E level \in 0..MaxLevels, d \in 0..MaxDistance : Insert(level, d)
    \/ \E d \in 0..MaxDistance : Remove(d)
    \/ DropRemoved
    \/ DropHead
    \/ DropStep

\* A destructor that has been called runs on: nothing else is scheduled.
SpecDrop == Init /\ [][NextDrop]_vars /\ WF_vars(DropStep)

--------------------------------------------------------------------------
\* levels_required applied to sizes

Sizes ==
    (0..MaxSize) \cup {1023, 1024}
        \cup UNION {{Pow2(k) - 1, Pow2(k), Pow2(k) + 1} : k \in 1..MaxShift}

\* The caller's side of levels_required(n) once it has returned value.
LevelsRequiredDone(n, value) ==
    call' = Levels(n, value)

LevelsRequired(n) ==
    /\ LevelsRequiredDone(n, levels_required(n))
    /\ UNCHANGED <<heap, ret, before, S, iter, front_out, back_out, stack>>

NextLevels == \E n \in Sizes : LevelsRequired(n)

SpecLevels == Init /\ [][NextLevels]_vars

--------------------------------------------------------------------------
\* Reading the structure

NoDup(s) == \A i, j \in 1..Len(s) : i # j => s[i] # s[j]

Range(s) == {s[i] : i \in 1..Len(s)}

IndexOf(s, x) == CHOOSE i \in 1..Len(s) : s[i] = x

RECURSIVE SumSeq(_)
SumSeq(s) == IF s = << >> THEN 0 ELSE s[1] + SumSeq(Tail(s))

\* The nodes met by following links[level] from node, node itself left out.  The
\* walk gives up after fuel steps, so a cycle shows as a repeated node.
RECURSIVE ChainFrom(_, _, _, _)
ChainFrom(h, node, level, fuel) ==
    IF fuel = 0 \/ node \notin DOMAIN h THEN << >>
    ELSE IF level > h[node].level THEN << >>
    ELSE LET succ == h[node].links[level] IN
         IF succ = Null THEN << >>
         ELSE <<succ>> \o ChainFrom(h, succ, level, fuel - 1)

Chain(h, node, level) == ChainFrom(h, node, level, Cardinality(DOMAIN h))

Order0 == Chain(heap, HeadPtr, 0)

LevelChain(L) == Chain(heap, HeadPtr, L)

ValuesOf(h, s) == [i \in 1..Len(s) |-> h[s[i]].value]

Linked == {HeadPtr} \cup Range(Order0)

\* Level-0 steps from the sentinel to x along the chain order: 0 for the
\* sentinel, i + 1 for the element of 0-based position i.
Rank(order, x) == IF x = HeadPtr THEN 0 ELSE IndexOf(order, x)

Position(order, x) == IndexOf(order, x) - 1

\* Sum of links_len[L] over the links of the level-L chain c from the sentinel
\* up to and including the link that reaches x.
SpanSum(c, L, x) ==
    LET k == IndexOf(c, x)
    IN SumSeq([j \in 1..k |-> heap[IF j = 1 THEN HeadPtr ELSE c[j - 1]].links_len[L]])

--------------------------------------------------------------------------
\* The program with its consuming iterator

LastOf(order) == IF order = << >> THEN Null ELSE order[Len(order)]

\* The iterator over the chain of the structure: first is the detached first
\* node, last the last node, size the number of elements.
IntoIterNew ==
    /\ Running
    /\ Held = {}
    /\ heap' = take_next(heap, HeadPtr).heap
    /\ iter' = IntoIter(heap[HeadPtr].links[0], LastOf(Chain(heap, HeadPtr, 0)),
                        Len(Chain(heap, HeadPtr, 0)))
    /\ ret' = Ret("into_iter", 0, 0, Null, 0, FALSE, FALSE)
    /\ before' = NoBefore
    /\ call' = NoQuery
    /\ front_out' = << >>
    /\ back_out' = << >>
    /\ UNCHANGED <<S, stack>>

IterRunning == iter.live /\ ~iter.ub /\ ~ret.panic

\* The caller's side of next() once it has returned r.
IterNextDone(r) ==
    /\ heap' = r.heap
    /\ iter' = r.iter
    /\ ret' = RetValue("next", r.value, r.panic)
    /\ front_out' = IF r.value # None THEN Append(front_out, r.value) ELSE front_out

IterNext ==
    /\ IterRunning
    /\ IterNextDone(next(heap, iter))
    /\ UNCHANGED <<before, call, S, back_out, stack>>

\* The caller's side of next_back() once it has returned r.
IterNextBackDone(r) ==
    /\ heap' = r.heap
    /\ iter' = r.iter
    /\ ret' = RetValue("next_back", r.value, r.panic)
    /\ back_out' = IF r.value # None THEN Append(back_out, r.value) ELSE back_out

\* next_back() through a dangling new_last.  What the read finds is not
\* defined: the call crashes, or it takes some allocated node p for the popped
\* node, returns its payload and frees it.
IterNextBackUB(p) ==
    \/ /\ p = Null
       /\ iter' = [iter EXCEPT !.ub = TRUE]
       /\ ret' = RetValue("next_back", None, TRUE)
       /\ UNCHANGED <<heap, back_out>>
    \/ /\ p \in DOMAIN heap
       /\ iter' = [iter EXCEPT !.ub = TRUE, !.last = heap[iter.last].prev,
                               !.size = @ - 1]
       /\ ret' = RetValue("next_back", heap[p].value, FALSE)
       /\ heap' = Dealloc(heap, p)
       /\ back_out' = Append(back_out, heap[p].value)

IterNextBack ==
    /\ IterRunning
    /\ \/ ~next_back_dangling(heap, iter) /\ IterNextBackDone(next_back(heap, iter))
       \/ next_back_dangling(heap, iter) /\ \E p \in Addr \cup {Null} : IterNextBackUB(p)
    /\ UNCHANGED <<before, call, S, front_out, stack>>

NextIter ==
    \/ \E level \in 0..MaxLevels, d \in 0..MaxDistance : Insert(level, d)
    \/ \E d \in 0..MaxDistance : Remove(d)
    \/ DropRemoved
    \/ IntoIterNew
    \/ IterNext
    \/ IterNextBack

SpecIter == Init /\ [][NextIter]_vars

--------------------------------------------------------------------------
\* C1. Span invariant: after every insert and remove, a link of node p at level
\* i that points to q has links_len 1 + the number of elements strictly
\* between p and q in the level-0 chain; a null link has links_len equal to
\* the number of elements after p.
SpanInvariant ==
    LET order == Order0 IN
    \A p \in {HeadPtr} \cup Elements :
        /\ p \in {HeadPtr} \cup Range(order)
        /\ DOMAIN heap[p].links = 0..heap[p].level
        /\ DOMAIN heap[p].links_len = 0..heap[p].level
        /\ LET rp == Rank(order, p) IN
           \A i \in 0..heap[p].level :
              LET q == heap[p].links[i] IN
              IF q # Null
              THEN /\ q \in Range(order)
                   /\ rp < Rank(order, q)
                   /\ LET rq == Rank(order, q) IN
                      heap[p].links_len[i] =
                          1 + Cardinality({k \in 1..Len(order) : rp < k /\ k < rq})
              ELSE heap[p].links_len[i] = Cardinality({k \in 1..Len(order) : rp < k})

SpanWitness ==
    /\ ret.op = "remove" /\ ret.found
    /\ \E p \in Linked : \E i \in 1..heap[p].level :
          heap[p].links[i] # Null /\ heap[p].links_len[i] >= 2
    /\ \E p \in Linked : \E i \in 1..heap[p].level :
          heap[p].links[i] = Null /\ heap[p].links_len[i] >= 1

\* C2 as stated. Rank-sum: after inserts and removes, for every level L and
\* every node x on the level-L chain, the spans summed from the sentinel up to
\* the link reaching x equal the 0-based position of x.
RankSumZeroBased ==
    ret.op \in {"insert", "remove"} =>
        LET order == Order0 IN
        \A L \in 0..heap[HeadPtr].level :
            LET c == LevelChain(L) IN
            \A x \in Range(c) :
                x \in Range(order) /\ SpanSum(c, L, x) = Position(order, x)

\* C2, amended. Rank-sum: for every level L and every node x on the level-L
\* chain, the spans summed from the sentinel up to the link reaching x equal
\* the 0-based position of x plus one, the number of level-0 steps from the
\* sentinel to x.
RankSumInvariant ==
    LET order == Order0 IN
    \A L \in 0..heap[HeadPtr].level :
        LET c == LevelChain(L) IN
        \A x \in Range(c) :
            x \in Range(order) /\ SpanSum(c, L, x) = Position(order, x) + 1

RankSumWitness ==
    /\ ret.op = "insert"
    /\ \E L \in 1..heap[HeadPtr].level :
          /\ Len(LevelChain(L)) >= 2
          /\ Len(LevelChain(L)) < Len(Order0)
          /\ ret.node \in Range(LevelChain(L))

\* C3. Order preservation: following links[0] from the sentinel visits every
\* element exactly once, without a cycle, and the payloads met are the
\* reference sequence S.
OrderPreserved ==
    /\ NoDup(Order0)
    /\ Range(Order0) = Elements
    /\ ValuesOf(heap, Order0) = S

OrderWitness ==
    /\ ret.op = "remove" /\ ret.found /\ ret.d = 1
    /\ Len(S) = 2
    /\ S[1] > S[2]
    /\ ValuesOf(heap, Order0) = S

\* The level-0 order the last insert or remove started from.
OrderBefore == Chain(before.heap, HeadPtr, 0)

\* C4. remove(d) on a structure of n elements returns the node that was at
\* 0-based index d when d < n and None exactly when d >= n; after a removal
\* the other elements keep their order.
RemoveReturns ==
    ret.op = "remove" =>
        LET order == OrderBefore IN
        /\ ~ret.panic
        /\ ret.found <=> ret.d < Len(order)
        /\ ret.found => /\ ret.node = order[ret.d + 1]
                        /\ Order0 = RemoveAt(order, ret.d)
        /\ ~ret.found => ret.node = Null /\ Order0 = order

RemoveWitness ==
    /\ ret.op = "remove" /\ ret.found /\ ret.d = 1
    /\ Len(OrderBefore) = 3
    /\ heap[ret.node].level >= 1
    /\ Len(Order0) = 2

\* C5. Insert/remove inverse: insert(node, d) with d <= n followed at once by
\* remove(d) returns the inserted box with the inserted payload, and every
\* node that was in the structure before the insert has the links, spans,
\* back-reference and payload it had then.
InsertRemoveInverse ==
    (/\ ret.op = "remove"
     /\ before.prior_box # Null
     /\ ret.d <= Len(Chain(before.prior_heap, HeadPtr, 0))) =>
        /\ ret.found /\ ~ret.panic
        /\ ret.node = before.prior_box
        /\ heap[ret.node].value = PayloadOf(before.prior_box)
        /\ \A a \in DOMAIN before.prior_heap : heap[a] = before.prior_heap[a]

InsertRemoveWitness ==
    /\ ret.op = "remove" /\ ret.found /\ ret.d = 1
    /\ before.prior_box = ret.node
    /\ heap[ret.node].level >= 1
    /\ Len(Order0) = 2
    /\ \E p \in Range(Order0) : heap[p].level = 2

\* C8. Out-of-range insert: insert(node, d) with d > n neither fails nor loses
\* the node; the node becomes the last element, behind the n elements in their
\* old order, with a null link and a span of 0 at each of its levels.
OutOfRangeInsert ==
    (ret.op = "insert" /\ ret.d > Len(OrderBefore)) =>
        /\ ~ret.panic
        /\ ret.node = before.box
        /\ Order0 = OrderBefore \o <<before.box>>
        /\ \A i \in 0..heap[before.box].level :
              heap[before.box].links[i] = Null /\ heap[before.box].links_len[i] = 0

OutOfRangeWitness ==
    /\ ret.op = "insert" /\ ret.d > Len(OrderBefore)
    /\ Len(OrderBefore) = 2
    /\ heap[before.box].level = 2
    /\ \E p \in Range(OrderBefore) : heap[p].level >= 1

\* C9. Total length at every level: distance(L, None) from the sentinel of a
\* structure of n elements is Ok(n) at every level L of the sentinel.
TotalLength ==
    (call.op = "distance" /\ call.self = HeadPtr /\ call.target = Null) =>
        call.ok /\ call.value = Len(Order0)

TotalLengthWitness ==
    /\ call.op = "distance" /\ call.self = HeadPtr /\ call.target = Null
    /\ call.level = 2
    /\ heap[HeadPtr].links[2] # Null
    /\ heap[heap[HeadPtr].links[2]].links_len[2] >= 1
    /\ call.value = 3

\* C10. distance(level, Some(target)) from node s is Ok(k), k the number of
\* level-0 steps from s to target, exactly when target is s or lies on the
\* level chain that starts at s; otherwise it is Err(()).  The structure is
\* as it was before the call.
DistanceToTarget ==
    (call.op = "distance" /\ call.target # Null) =>
        LET order == Order0
            onchain == call.target = call.self
                         \/ call.target \in Range(Chain(heap, call.self, call.level))
        IN /\ call.ok <=> onchain
           /\ call.ok => call.value = Rank(order, call.target) - Rank(order, call.self)
           /\ heap = before.heap

DistanceWitness ==
    /\ call.op = "distance" /\ call.target # Null /\ call.ok
    /\ call.self # HeadPtr
    /\ call.level >= 1
    /\ call.value = 2

\* A case of C10 where the target exists but is not met: Err(()).
DistanceErrWitness ==
    /\ call.op = "distance" /\ call.target # Null /\ ~call.ok
    /\ call.target \in Range(Order0)
    /\ call.level = 0

\* What the iterator still holds: the payloads from first along links[0].
Remaining ==
    IF iter.first \notin DOMAIN heap THEN << >>
    ELSE ValuesOf(heap, <<iter.first>> \o Chain(heap, iter.first, 0))

Reverse(s) == [i \in 1..Len(s) |-> s[Len(s) + 1 - i]]

\* C6. For an iterator over a chain of k elements and any interleaving of
\* next() and next_back(): no call fails, the payloads yielded by next() are a
\* prefix of the original sequence, those yielded by next_back() are, reversed,
\* a suffix, what remains is the original sequence without that prefix and
\* suffix (so every element is yielded exactly once), and next_back() on a
\* single remaining element returns it and leaves the iterator empty.
TwoEnded ==
    iter.live =>
        /\ ~iter.ub
        /\ ~ret.panic
        /\ Len(front_out) + Len(back_out) <= Len(S)
        /\ front_out = SubSeq(S, 1, Len(front_out))
        /\ Reverse(back_out) = SubSeq(S, Len(S) - Len(back_out) + 1, Len(S))
        /\ Remaining = SubSeq(S, Len(front_out) + 1, Len(S) - Len(back_out))
        /\ (iter.first = Null) = (Len(front_out) + Len(back_out) = Len(S))

\* C7. Calling only next() yields the level-0 order and calling only
\* next_back() yields its reverse; once a call has returned None the whole
\* sequence has been yielded, first is None and last is null, and every later
\* call returns None.
RoundTrip ==
    /\ (iter.ub => front_out # << >>)
    /\ (iter.live /\ ~iter.ub) =>
        /\ ~ret.panic
        /\ (back_out = << >>) =>
            /\ front_out = SubSeq(S, 1, Len(front_out))
            /\ (iter.first = Null) = (front_out = S)
            /\ (iter.first = Null => iter.last = Null)
            /\ (ret.op \in {"next", "next_back"} /\ ret.value = None
                    => iter.first = Null)
        /\ (front_out = << >>) =>
            /\ Reverse(back_out) = SubSeq(S, Len(S) - Len(back_out) + 1, Len(S))
            /\ (iter.first = Null) = (back_out = Reverse(S))
            /\ (iter.first = Null => iter.last = Null)
            /\ (ret.op \in {"next", "next_back"} /\ ret.value = None
                    => iter.first = Null)

\* A chain of at least two elements has been consumed from the back only, and
\* a further next_back() has returned None.
RoundTripWitness ==
    /\ iter.live
    /\ Len(S) >= 2
    /\ front_out = << >>
    /\ back_out = Reverse(S)
    /\ ret.op = "next_back"
    /\ ret.value = None

\* A case of C7: the same from the front only, ended by a next() returning None.
RoundTripFrontWitness ==
    /\ iter.live
    /\ Len(S) >= 2
    /\ back_out = << >>
    /\ front_out = S
    /\ ret.op = "next"
    /\ ret.value = None

\* Sum of links_len[level] over the links that lead from c[1] to c[i] along c.
SpanTo(c, level, i) == SumSeq([j \in 1..(i - 1) |-> heap[c[j]].links_len[level]])

\* C11. advance_atmost(level, budget) from s returns (t, k): t is on s's chain
\* of that level, k is the sum of the spans from s to t and the number of
\* level-0 steps from s to t, k <= budget, no node further along the chain is
\* within the budget (the span of t's link, if t has one, exceeds what is left
\* of the budget), and nothing is written.
AdvanceAtmostResult ==
    call.op = "advance_atmost" =>
        LET c == <<call.self>> \o Chain(heap, call.self, call.level)
            order == Order0
        IN  /\ heap = before.heap
            /\ call.node \in Range(c)
            /\ \A i \in 1..Len(c) :
                  c[i] = call.node =>
                      /\ call.value = SpanTo(c, call.level, i)
                      /\ call.value = Rank(order, c[i]) - Rank(order, call.self)
                      /\ call.value <= call.max_distance
                      /\ \A j \in (i + 1)..Len(c) :
                            SpanTo(c, call.level, j) > call.max_distance
                      /\ heap[c[i]].links[call.level] # Null =>
                            heap[c[i]].links_len[call.level]
                                > call.max_distance - call.value

\* advance_atmost at a level above 0 has moved, and has stopped short of the
\* budget before a link whose span is more than what is left.
AdvanceAtmostWitness ==
    /\ call.op = "advance_atmost"
    /\ call.level >= 1
    /\ call.node # call.self
    /\ heap[call.node].links[call.level] # Null
    /\ call.value < call.max_distance

\* A case of C11: the chain ends before the budget is used up.
AdvanceAtmostEndWitness ==
    /\ call.op = "advance_atmost"
    /\ call.node # call.self
    /\ heap[call.node].links[call.level] = Null
    /\ call.value < call.max_distance

\* C12. Dropping the sentinel of a chain of any length ends with every node
\* destroyed; at most two calls of the destructor are ever in progress, and a
\* node of the chain is given to its destructor only when its own links[0] is
\* null.
TeardownBounded ==
    /\ [](Len(stack) <= 2)
    /\ [](\A i \in 2..Len(stack) :
              /\ stack[i].self \in DOMAIN heap
              /\ heap[stack[i].self].links[0] = Null)
    /\ (stack # << >>) ~> (stack = << >> /\ DOMAIN heap = {})

\* The destructor of a chain element runs inside the sentinel's, an element has
\* been destroyed already and another is still waiting in the loop.
TeardownWitness ==
    /\ Len(stack) = 2
    /\ Cardinality(DOMAIN heap) < Cardinality(DOMAIN before.heap)
    /\ stack[1].node # Null

\* C13. levels_required(0) = 1, and for n >= 1 levels_required(n) is the h with
\* 2^(h-1) <= n < 2^h; so levels_required(2n) = levels_required(n) + 1 for
\* n >= 1, and levels_required(n + 1) >= levels_required(n).
LevelCountLaw ==
    call.op = "levels_required" =>
        /\ (call.n = 0 => call.value = 1)
        /\ (call.n >= 1 =>
                /\ Pow2(call.value - 1) <= call.n
                /\ call.n < Pow2(call.value)
                /\ levels_required(2 * call.n) = call.value + 1)
        /\ levels_required(call.n + 1) >= call.value

\* The size crosses a power of two: 1024 elements need 11 levels.
LevelCountWitness ==
    /\ call.op = "levels_required"
    /\ call.n = 1024
    /\ call.value = 11
    /\ levels_required(1023) = 10

\* C14. For an iterator created with size = the number of chained elements and
\* after any calls of next() and next_back(): no call has failed, size_hint()
\* is (r, Some(r)) with r the number of elements not yet yielded, which are the
\* elements the iterator still holds; a call on an exhausted iterator returns
\* None and leaves size at 0.
ExactSize ==
    iter.live =>
        /\ ~iter.ub
        /\ ~ret.panic
        /\ size_hint(iter) = <<Len(S) - Len(front_out) - Len(back_out),
                               Len(S) - Len(front_out) - Len(back_out)>>
        /\ iter.size = Len(Remaining)
        /\ (ret.op \in {"next", "next_back"} /\ ret.value = None => iter.size = 0)

\* What the locater of remove returns at level L when the descent, now at node
\* self of the given level with distance_left to go, gets there.
RECURSIVE LocatedFrom(_, _, _, _, _)
LocatedFrom(h, self, level, distance_left, L) ==
    LET loc == remove_locater(h, self, level, distance_left)
    IN  IF level = L \/ ~loc.found THEN loc
        ELSE LocatedFrom(h, loc.node, level - 1, loc.distance_left, L)

\* C15. The assert_eq! of _remove never fails: after every remove on the
\* sentinel no call has panicked, and for every level L >= 1 that the removed
\* node reaches, the node the descent located at L had the removed node as its
\* links[L] with a span equal to the level-0 steps from it to the removed node.
RemoveAssertHolds ==
    ret.op = "remove" =>
        /\ ~ret.panic
        /\ ret.found =>
              \A L \in 1..before.heap[HeadPtr].level :
                  L <= before.heap[ret.node].level =>
                      LET loc == LocatedFrom(before.heap, HeadPtr,
                                             before.heap[HeadPtr].level, ret.d, L)
                          order == OrderBefore
                      IN  /\ loc.found
                          /\ before.heap[loc.node].links[L] = ret.node
                          /\ before.heap[loc.node].links_len[L]
                                 = Rank(order, ret.node) - Rank(order, loc.node)

\* A node that reaches level 1 has been removed, and the node located at level
\* 1 was an element, not the sentinel.
RemoveAssertWitness ==
    /\ ret.op = "remove"
    /\ ret.found
    /\ ~ret.panic
    /\ before.heap[ret.node].level >= 1
    /\ LocatedFrom(before.heap, HeadPtr, before.heap[HeadPtr].level, ret.d, 1).node
           # HeadPtr

\* The elements of order whose level is at least L, in the same order.
AtLevel(order, L) == SelectSeq(order, LAMBDA x : heap[x].level >= L)

\* C16. After any inserts and removes on the sentinel, for every level L of the
\* sentinel the chain along links[L] visits exactly the elements whose level is
\* at least L, in the order of the level-0 chain; so a node is in the chains of
\* levels 0 up to its own level and in no other.
LevelMembership ==
    ret.op \in {"init", "insert", "remove", "drop"} =>
        LET order == Order0
        IN  \A L \in 0..heap[HeadPtr].level : LevelChain(L) = AtLevel(order, L)

\* An insert has put a node of a level between 1 and the sentinel's top among
\* three elements, one of which does not reach the node's level.
LevelMembershipWitness ==
    /\ ret.op = "insert"
    /\ ret.level >= 1
    /\ ret.level < heap[HeadPtr].level
    /\ Len(Order0) = 3
    /\ ret.node \in Range(LevelChain(ret.level))
    /\ ret.node \notin Range(LevelChain(ret.level + 1))
    /\ Len(LevelChain(ret.level)) < 3

\* C17. After every insert and remove on the sentinel each linked node's prev
\* is the node whose links[0] it is; the sentinel's prev is null and it is the
\* only linked node for which is_head() holds.  So the successor of an inserted
\* node points back to it, and the successor of a removed node points back to
\* the removed node's predecessor.
BackReference ==
    ret.op \in {"init", "insert", "remove", "drop"} =>
        LET c == <<HeadPtr>> \o Order0
            old == <<HeadPtr>> \o OrderBefore
        IN  /\ heap[HeadPtr].prev = Null
            /\ \A i \in 2..Len(c) : heap[c[i]].prev = c[i - 1]
            /\ \A x \in Range(c) : is_head(heap, x) = (x = HeadPtr)
            /\ (ret.op = "insert" /\ heap[ret.node].links[0] # Null) =>
                  heap[heap[ret.node].links[0]].prev = ret.node
            /\ (ret.op = "remove" /\ ret.found) =>
                  \A i \in 2..(Len(old) - 1) :
                      old[i] = ret.node => heap[old[i + 1]].prev = old[i - 1]

\* A node between two elements has been removed: its successor points back to
\* its predecessor, an element.
BackReferenceWitness ==
    /\ ret.op = "remove"
    /\ ret.found
    /\ ret.d = 1
    /\ Len(OrderBefore) = 3
    /\ heap[OrderBefore[3]].prev = OrderBefore[1]

\* A case of C17: a node has been inserted before an element.
BackReferenceInsertWitness ==
    /\ ret.op = "insert"
    /\ heap[ret.node].links[0] # Null
    /\ heap[ret.node].prev # HeadPtr

\* C18. When remove on the sentinel returns a node r, no links[i] and no prev
\* of a node reachable from the sentinel is r, every such pointer is null or a
\* node of the structure, r's own links[0] and prev are null, and destroying r
\* destroys r alone and writes to no node of the structure.
NoDanglingAfterRemove ==
    (ret.op = "remove" /\ ret.found) =>
        /\ \A x \in Linked :
              /\ heap[x].prev # ret.node
              /\ heap[x].prev \in Linked \cup {Null}
              /\ \A i \in 0..heap[x].level :
                    /\ heap[x].links[i] # ret.node
                    /\ heap[x].links[i] \in Linked \cup {Null}
        /\ heap[ret.node].links[0] = Null
        /\ heap[ret.node].prev = Null
        /\ drop(heap, ret.node) = heap
        /\ DOMAIN Dealloc(drop(heap, ret.node), ret.node) = Linked

\* The node returned was linked at level 1 between two nodes of that level: it
\* still holds its old links[1], a pointer into the structure.
NoDanglingWitness ==
    /\ ret.op = "remove"
    /\ ret.found
    /\ heap[ret.node].level >= 1
    /\ heap[ret.node].links[1] \in Linked
    /\ ret.d >= 1

\* C19. When remove(d) returns None the position is out of range and every
\* node is exactly as before the call: links, spans, back-references, values.
FailedRemoveNoOp ==
    (ret.op = "remove" /\ ~ret.found) =>
        /\ ~ret.panic
        /\ heap = before.heap
        /\ ret.d >= Len(OrderBefore)
        /\ ValuesOf(heap, Order0) = S

\* remove(n) on n >= 1 elements under a sentinel of two levels or more has
\* returned None: the locater found a node at the top level and none at level 0.
FailedRemoveWitness ==
    /\ ret.op = "remove"
    /\ ~ret.found
    /\ heap[HeadPtr].level >= 1
    /\ Len(Order0) >= 1
    /\ ret.d = Len(Order0)

\* C20. After every next() that leaves the iterator non-empty the node now held
\* as first has a null prev, as take_next leaves it; so the prev of the held
\* front node never points to a node that has been destroyed, and next_back()
\* never reads a destroyed node.
FrontDetached ==
    iter.live =>
        /\ ~iter.ub
        /\ iter.first \in DOMAIN heap =>
              /\ heap[iter.first].prev \in DOMAIN heap \cup {Null}
              /\ (ret.op = "next" => heap[iter.first].prev = Null)

\* C21. _insert started at the sentinel's top level, as insert starts it,
\* returns the inserted node and the level-0 steps from the sentinel to it,
\* min(d, n) + 1 for a requested distance d and n elements; a successful
\* remove(d) returns the level-0 steps from the sentinel to where the removed
\* node was, d + 1.
ReportedDistance ==
    /\ ret.op = "insert" =>
          /\ ~ret.panic
          /\ ret.node = before.box
          /\ ret.distance = Min(ret.d, Len(OrderBefore)) + 1
          /\ ret.distance = Rank(Order0, ret.node)
    /\ (ret.op = "remove" /\ ret.found) =>
          /\ ret.distance = ret.d + 1
          /\ ret.distance = Rank(OrderBefore, ret.node)

\* An insert past the end of two or more elements under a sentinel of two
\* levels or more: the distance asked for is more than the distance reported.
ReportedDistanceWitness ==
    /\ ret.op = "insert"
    /\ heap[HeadPtr].level >= 1
    /\ Len(OrderBefore) >= 2
    /\ ret.d > Len(OrderBefore)
    /\ ret.distance = Len(OrderBefore) + 1

\* A case of C21: a remove behind an element that reaches level 1.
ReportedDistanceRemoveWitness ==
    /\ ret.op = "remove"
    /\ ret.found
    /\ ret.d >= 2
    /\ ret.distance = ret.d + 1
    /\ \E x \in Linked \ {HeadPtr} : heap[x].level >= 1

====
